---- MODULE Spec2Model ----
(***************************************************************************)
(* Model of the in-memory block file store of Cog-Os (src/src/fs.rs) and   *)
(* of the command layer that calls it (src/src/commands/*.rs).             *)
(*                                                                         *)
(* The store is the struct SimpleFs: a table of MAX_FILES file entries, a  *)
(* bitmap block_map over BLOCKS blocks, and the block storage data.  Rust  *)
(* arrays are modelled as functions over 0..N-1, so that the indices of    *)
(* the model are the indices of the source.  &str and &[u8] arguments are  *)
(* sequences of byte values.  Option<usize> is <<>> (None) or <<i>>        *)
(* (Some(i)).  A Rust panic (index out of bounds, unwrap of None) is the   *)
(* result "Panic": the panic handler of src/src/main.rs never returns, so  *)
(* nothing runs after it.                                                  *)
(*                                                                         *)
(* The sizes of the store are scaled down from the source (MAX_FILES 16,   *)
(* FILENAME_LEN 16, BLOCK_SIZE 256, BLOCKS 64, MAX_BLOCKS_PER_FILE 16),    *)
(* keeping BLOCKS > MAX_BLOCKS_PER_FILE and                                *)
(* MAX_FILES * MAX_BLOCKS_PER_FILE > BLOCKS as in the source.              *)
(***************************************************************************)
EXTENDS Integers, Sequences, FiniteSets, TLC

VARIABLES entries, block_map, data, last, fs_lock, run

vars == <<entries, block_map, data, last, fs_lock, run>>

(***************************************************************************)
(* Sizes (src/src/fs.rs:30-34), scaled.                                    *)
(***************************************************************************)
MAX_FILES == 2

FILENAME_LEN == 2

BLOCK_SIZE == 2

BLOCKS == 3

MAX_BLOCKS_PER_FILE == 2

\* The marker 0xFF of an unused position of a block list.
NOBLOCK == 255

\* Payload bytes are 1..MaxByte (never 0, so that a zeroed byte shows).
MaxByte == 3

\* The callers that contend for the lock FS in StepSpec.
NumCallers == 2

Min(a, b) == IF a < b THEN a ELSE b

SetMax(S) == CHOOSE x \in S : \A y \in S : y <= x

SetMin(S) == CHOOSE x \in S : \A y \in S : x <= y

None == << >>

Some(i) == <<i>>

(***************************************************************************)
(* Inputs.  Names: the empty name, a short name, that name followed by a   *)
(* NUL byte, a name of exactly FILENAME_LEN bytes and one of               *)
(* FILENAME_LEN + 1 bytes.  Payloads: the lengths at the edges of a block  *)
(* and of the largest file (empty, one byte, a full block, a block and a   *)
(* byte, the largest file, one byte too many), with bytes that depend on   *)
(* their position.  Buffers: read_into is called with these capacities.    *)
(***************************************************************************)
Repeat(c, n) == [i \in 1..n |-> c]

Names ==
    { << >>, <<97>>, <<97, 0>>,
      Repeat(97, FILENAME_LEN), Repeat(97, FILENAME_LEN + 1) }

MaxFileSize == MAX_BLOCKS_PER_FILE * BLOCK_SIZE

Pattern(n) == [i \in 1..n |-> ((i - 1) % MaxByte) + 1]

PayloadLens ==
    { 0, 1, BLOCK_SIZE, BLOCK_SIZE + 1, MaxFileSize, MaxFileSize + 1 }

Payloads == { Pattern(n) : n \in PayloadLens }

BufLens == { 0, 1, BLOCK_SIZE + 1, MaxFileSize }

(***************************************************************************)
(* FileEntry and SimpleFs::new.                                            *)
(***************************************************************************)
FileEntryDefault ==
    [ used        |-> FALSE,
      name        |-> [i \in 0..(FILENAME_LEN - 1) |-> 0],
      size        |-> 0,
      blocks      |-> [i \in 0..(MAX_BLOCKS_PER_FILE - 1) |-> NOBLOCK],
      blocks_used |-> 0 ]

ZeroBlock == [j \in 0..(BLOCK_SIZE - 1) |-> 0]

NewEntries == [i \in 0..(MAX_FILES - 1) |-> FileEntryDefault]

NewBlockMap == [b \in 0..(BLOCKS - 1) |-> FALSE]

NewData == [b \in 0..(BLOCKS - 1) |-> ZeroBlock]

(***************************************************************************)
(* Names as stored: copied into a zero-filled array of FILENAME_LEN bytes  *)
(* (create, write), read back with the trailing zero bytes trimmed         *)
(* (find_entry, list_files).                                               *)
(***************************************************************************)
StoreName(name) ==
    [i \in 0..(FILENAME_LEN - 1) |-> IF i < Len(name) THEN name[i + 1] ELSE 0]

TrimEndNul(stored) ==
    LET nz == { i \in 0..(FILENAME_LEN - 1) : stored[i] # 0 }
        n  == IF nz = {} THEN 0 ELSE SetMax(nz) + 1
    IN  [i \in 1..n |-> stored[i - 1]]

NameInvalid(name) == Len(name) = 0 \/ Len(name) > FILENAME_LEN

find_entry(es, name) ==
    LET hits == { i \in 0..(MAX_FILES - 1) :
                    es[i].used /\ TrimEndNul(es[i].name) = name }
    IN  IF hits = {} THEN None ELSE Some(SetMin(hits))

find_free_entry_Last(es) ==
    LET free == { i \in 0..(MAX_FILES - 1) : ~es[i].used }
    IN  IF free = {} THEN None ELSE Some(SetMax(free))

find_free_entry(es) ==
    LET free == { i \in 0..(MAX_FILES - 1) : ~es[i].used }
    IN  IF free = {} THEN None ELSE Some(SetMin(free))

NamedEntry(name) ==
    [FileEntryDefault EXCEPT !.used = TRUE, !.name = StoreName(name)]

(***************************************************************************)
(* allocate_blocks: the scan of fs.rs:108-117.  Position i of the scan,    *)
(* with found blocks taken so far into out.  A free block is marked in     *)
(* block_map first and stored in out[found] next: with found already       *)
(* MAX_BLOCKS_PER_FILE the store into out is out of bounds and panics,     *)
(* the block staying marked.  The scan stops when found reaches            *)
(* blocks_needed right after an increment, or at the end of the map.       *)
(***************************************************************************)
BlockIsFree_Always(bm, i) == TRUE

BlockIsFree(bm, i) == ~bm[i]

RECURSIVE AllocScan(_, _, _, _, _)
AllocScan(bm, out, found, i, blocks_needed) ==
    IF i >= BLOCKS
    THEN [map |-> bm, out |-> out, found |-> found, panic |-> FALSE]
    ELSE IF BlockIsFree(bm, i)
         THEN LET bm2 == [bm EXCEPT ![i] = TRUE]
              IN  IF found >= MAX_BLOCKS_PER_FILE
                  THEN [map |-> bm2, out |-> out, found |-> found, panic |-> TRUE]
                  ELSE LET out2 == [out EXCEPT ![found] = i]
                       IN  IF found + 1 = blocks_needed
                           THEN [map |-> bm2, out |-> out2, found |-> found + 1,
                                 panic |-> FALSE]
                           ELSE AllocScan(bm2, out2, found + 1, i + 1, blocks_needed)
         ELSE AllocScan(bm, out, found, i + 1, blocks_needed)

\* The undo of fs.rs:120-124: the blocks out[0..found) are marked free again.
UndoAlloc_Skip(bm, out, found) == bm

UndoAlloc_AllButFirst(bm, out, found) ==
    [b \in 0..(BLOCKS - 1) |->
        IF \E j \in 1..(found - 1) : out[j] = b THEN FALSE ELSE bm[b]]

UndoAlloc(bm, out, found) ==
    [b \in 0..(BLOCKS - 1) |->
        IF \E j \in 0..(found - 1) : out[j] = b THEN FALSE ELSE bm[b]]

NoBlocks == [i \in 0..(MAX_BLOCKS_PER_FILE - 1) |-> NOBLOCK]

allocate_blocks(bm, blocks_needed) ==
    IF blocks_needed > MAX_BLOCKS_PER_FILE
    THEN [res |-> "TooManyBlocks", map |-> bm, out |-> NoBlocks]
    ELSE LET s == AllocScan(bm, NoBlocks, 0, 0, blocks_needed)
         IN  IF s.panic
             THEN [res |-> "Panic", map |-> s.map, out |-> s.out]
             ELSE IF s.found < blocks_needed
                  THEN [res |-> "NoSpace",
                        map |-> UndoAlloc(s.map, s.out, s.found),
                        out |-> NoBlocks]
                  ELSE [res |-> "Ok", map |-> s.map, out |-> s.out]

(***************************************************************************)
(* free_blocks: each of blocks[0..blocks_used) that is not 0xFF is marked  *)
(* free and its storage is zeroed.                                         *)
(***************************************************************************)
Released(blocks, blocks_used) ==
    { blocks[i] : i \in 0..(blocks_used - 1) } \ {NOBLOCK}

free_blocks_map_Keep(bm, blocks, blocks_used) == bm

free_blocks_map(bm, blocks, blocks_used) ==
    [b \in 0..(BLOCKS - 1) |->
        IF b \in Released(blocks, blocks_used) THEN FALSE ELSE bm[b]]

free_blocks_data_Keep(d, blocks, blocks_used) == d

free_blocks_data(d, blocks, blocks_used) ==
    [b \in 0..(BLOCKS - 1) |->
        IF b \in Released(blocks, blocks_used) THEN ZeroBlock ELSE d[b]]

(***************************************************************************)
(* create                                                                  *)
(***************************************************************************)
create(es, bm, d, name) ==
    IF NameInvalid(name)
    THEN [res |-> "NameTooLong", entries |-> es, block_map |-> bm, data |-> d]
    ELSE IF find_entry(es, name) # None
    THEN [res |-> "AlreadyExists", entries |-> es, block_map |-> bm, data |-> d]
    ELSE LET slot == find_free_entry(es)
         IN  IF slot = None
             THEN [res |-> "NoSpace", entries |-> es, block_map |-> bm, data |-> d]
             ELSE [res |-> "Ok",
                   entries |-> [es EXCEPT ![slot[1]] = NamedEntry(name)],
                   block_map |-> bm, data |-> d]

(***************************************************************************)
(* delete: the entry is reset to the default entry, then its blocks are    *)
(* released.                                                               *)
(***************************************************************************)
delete(es, bm, d, name) ==
    LET found == find_entry(es, name)
    IN  IF found = None
        THEN [res |-> "NotFound", entries |-> es, block_map |-> bm, data |-> d]
        ELSE LET e == es[found[1]]
             IN  [res |-> "Ok",
                  entries |-> [es EXCEPT ![found[1]] = FileEntryDefault],
                  block_map |-> free_blocks_map(bm, e.blocks, e.blocks_used),
                  data |-> free_blocks_data(d, e.blocks, e.blocks_used)]

(***************************************************************************)
(* write.  SliceOf is data[start..end] of fs.rs:220-222 for block number   *)
(* i of the file; FilledBlock is the block after it was cleared and the    *)
(* slice copied in (fs.rs:225-232).                                        *)
(***************************************************************************)
SliceOf_First(bytes, i) ==
    LET start == i * BLOCK_SIZE
        end   == Min(start + BLOCK_SIZE, Len(bytes))
    IN  [j \in 1..(end - start) |-> bytes[j]]

SliceOf(bytes, i) ==
    LET start == i * BLOCK_SIZE
        end   == Min(start + BLOCK_SIZE, Len(bytes))
    IN  [j \in 1..(end - start) |-> bytes[start + j]]

FilledBlock(slice) ==
    [j \in 0..(BLOCK_SIZE - 1) |-> IF j < Len(slice) THEN slice[j + 1] ELSE 0]

BlocksNeeded_Plus(bytes) == (Len(bytes) \div BLOCK_SIZE) + 1

BlocksNeeded(bytes) == (Len(bytes) + BLOCK_SIZE - 1) \div BLOCK_SIZE

\* The loop of fs.rs:218-235 from block number i on; indexing self.data with
\* an index that is no block panics.
RECURSIVE WriteFill(_, _, _, _, _, _)
WriteFill(e, d, allocated, bytes, i, blocks_needed) ==
    IF i >= blocks_needed
    THEN [entry |-> e, data |-> d, panic |-> FALSE]
    ELSE LET block_idx == allocated[i]
         IN  IF block_idx >= BLOCKS
             THEN [entry |-> e, data |-> d, panic |-> TRUE]
             ELSE WriteFill([e EXCEPT !.blocks[i] = allocated[i]],
                            [d EXCEPT ![block_idx] = FilledBlock(SliceOf(bytes, i))],
                            allocated, bytes, i + 1, blocks_needed)

\* fs.rs:182-205: the entry of name is emptied and its blocks released, or a
\* new entry is stored in the first free slot.
WritePrepare(es, bm, d, name) ==
    LET found == find_entry(es, name)
    IN  IF found # None
        THEN LET e == es[found[1]]
             IN  [res |-> "Ok",
                  entries |-> [es EXCEPT ![found[1]] =
                                  [e EXCEPT !.blocks = NoBlocks,
                                            !.blocks_used = 0,
                                            !.size = 0]],
                  block_map |-> free_blocks_map(bm, e.blocks, e.blocks_used),
                  data |-> free_blocks_data(d, e.blocks, e.blocks_used)]
        ELSE LET slot == find_free_entry(es)
             IN  IF slot = None
                 THEN [res |-> "NoSpace", entries |-> es, block_map |-> bm, data |-> d]
                 ELSE [res |-> "Ok",
                       entries |-> [es EXCEPT ![slot[1]] = NamedEntry(name)],
                       block_map |-> bm, data |-> d]

write(es, bm, d, name, bytes) ==
    IF NameInvalid(name)
    THEN [res |-> "NameTooLong", entries |-> es, block_map |-> bm, data |-> d]
    ELSE LET p == WritePrepare(es, bm, d, name)
             blocks_needed == BlocksNeeded(bytes)
         IN  IF p.res # "Ok"
             THEN p
             ELSE IF blocks_needed > MAX_BLOCKS_PER_FILE
             THEN [p EXCEPT !.res = "TooManyBlocks"]
             ELSE LET a == allocate_blocks(p.block_map, blocks_needed)
                  IN  IF a.res # "Ok"
                      THEN [p EXCEPT !.res = a.res, !.block_map = a.map]
                      ELSE LET idx == find_entry(p.entries, name)
                           IN  IF idx = None
                               THEN [p EXCEPT !.res = "Panic", !.block_map = a.map]
                               ELSE LET f == WriteFill(p.entries[idx[1]], p.data, a.out,
                                                       bytes, 0, blocks_needed)
                                    IN  IF f.panic
                                        THEN [res |-> "Panic",
                                              entries |-> [p.entries EXCEPT ![idx[1]] = f.entry],
                                              block_map |-> a.map, data |-> f.data]
                                        ELSE [res |-> "Ok",
                                              entries |-> [p.entries EXCEPT ![idx[1]] =
                                                  [f.entry EXCEPT
                                                      !.blocks_used = blocks_needed,
                                                      !.size = Len(bytes)]],
                                              block_map |-> a.map, data |-> f.data]

(***************************************************************************)
(* read_into with a buffer of buf_len bytes: the result, the count         *)
(* returned and the bytes buf[0..count) that were written.                 *)
(***************************************************************************)
RECURSIVE ReadLoop(_, _, _, _, _)
ReadLoop(e, d, bi, remaining, buf) ==
    IF bi >= e.blocks_used \/ remaining = 0
    THEN [res |-> "Ok", n |-> Len(buf), buf |-> buf]
    ELSE LET block_idx == e.blocks[bi]
             take      == Min(remaining, BLOCK_SIZE)
         IN  IF block_idx >= BLOCKS
             THEN [res |-> "Panic", n |-> Len(buf), buf |-> buf]
             ELSE ReadLoop(e, d, bi + 1, remaining - take,
                           buf \o [i \in 1..take |-> d[block_idx][i - 1]])

read_into_Whole(es, d, name, buf_len) ==
    LET found == find_entry(es, name)
    IN  IF found = None
        THEN [res |-> "NotFound", n |-> 0, buf |-> << >>]
        ELSE LET e == es[found[1]]
             IN  ReadLoop(e, d, 0, e.size, << >>)

read_into(es, d, name, buf_len) ==
    LET found == find_entry(es, name)
    IN  IF found = None
        THEN [res |-> "NotFound", n |-> 0, buf |-> << >>]
        ELSE LET e == es[found[1]]
             IN  ReadLoop(e, d, 0, Min(buf_len, e.size), << >>)

(***************************************************************************)
(* list_files: the pairs (name, size) of the used entries in slot order;   *)
(* the remaining positions of out are (None, 0) and are left out.          *)
(***************************************************************************)
RECURSIVE ListFrom(_, _)
ListFrom(es, i) ==
    IF i >= MAX_FILES
    THEN << >>
    ELSE IF es[i].used
         THEN << <<TrimEndNul(es[i].name), es[i].size>> >> \o ListFrom(es, i + 1)
         ELSE ListFrom(es, i + 1)

list_files(es) == ListFrom(es, 0)

(***************************************************************************)
(* The callers of the store.  A caller (a command of                       *)
(* src/src/commands/*.rs) locks FS, calls one operation and matches on     *)
(* what it returned.  The operations are called here with every name of    *)
(* Names, the empty name that the commands refuse before calling included. *)
(* last is the call in progress and its result, NoCall between two calls.  *)
(* Return is the end of the caller: the result is printed and the lock is  *)
(* dropped.  A panic never returns (src/src/main.rs:39-45).                *)
(***************************************************************************)
Call(op, name, bytes, cap, res, ret) ==
    [op |-> op, name |-> name, data |-> bytes, cap |-> cap, res |-> res, ret |-> ret]

NoCall == Call("none", << >>, << >>, 0, "Ok", << >>)

Idle == last.op = "none"

\* The lock FS is free and no caller is inside an operation: in Spec an
\* action is a whole operation, from taking the lock to dropping it.
Callers == 1..NumCallers

NoRun == [pc |-> "idle"]

Init ==
    /\ entries = NewEntries
    /\ block_map = NewBlockMap
    /\ data = NewData
    /\ last = NoCall
    /\ fs_lock = FALSE
    /\ run = [c \in Callers |-> NoRun]

Create(name) ==
    /\ Idle
    /\ LET r == create(entries, block_map, data, name)
       IN  /\ entries' = r.entries
           /\ block_map' = r.block_map
           /\ data' = r.data
           /\ last' = Call("create", name, << >>, 0, r.res, << >>)
           /\ UNCHANGED <<fs_lock, run>>

Delete(name) ==
    /\ Idle
    /\ LET r == delete(entries, block_map, data, name)
       IN  /\ entries' = r.entries
           /\ block_map' = r.block_map
           /\ data' = r.data
           /\ last' = Call("delete", name, << >>, 0, r.res, << >>)
           /\ UNCHANGED <<fs_lock, run>>

Write(name, bytes) ==
    /\ Idle
    /\ LET r == write(entries, block_map, data, name, bytes)
       IN  /\ entries' = r.entries
           /\ block_map' = r.block_map
           /\ data' = r.data
           /\ last' = Call("write", name, bytes, 0, r.res, << >>)
           /\ UNCHANGED <<fs_lock, run>>

Read(name, cap) ==
    /\ Idle
    /\ LET r == read_into(entries, data, name, cap)
       IN  /\ last' = Call("read", name, << >>, cap, r.res, <<r.n, r.buf>>)
           /\ UNCHANGED <<entries, block_map, data, fs_lock, run>>

List ==
    /\ Idle
    /\ last' = Call("list", << >>, << >>, 0, "Ok", list_files(entries))
    /\ UNCHANGED <<entries, block_map, data, fs_lock, run>>

Return ==
    /\ ~Idle
    /\ last.res # "Panic"
    /\ last' = NoCall
    /\ UNCHANGED <<entries, block_map, data, fs_lock, run>>

Next ==
    \/ \E name \in Names : Create(name)
    \/ \E name \in Names : Delete(name)
    \/ \E name \in Names, bytes \in Payloads : Write(name, bytes)
    \/ \E name \in Names, cap \in BufLens : Read(name, cap)
    \/ List
    \/ Return

Spec == Init /\ [][Next]_vars

(***************************************************************************)
(* StepSpec: the same operations, one step per store mutation, run by      *)
(* Callers that take the lock FS before the call (let mut fs = FS.lock()   *)
(* in every command) and drop it when the command returns.  run[c] is the  *)
(* position of caller c inside its command, with the locals of delete and  *)
(* write; run[c].pre is the store at the moment the lock was taken, kept   *)
(* to compare the outcome with the operation taken as a whole.             *)
(***************************************************************************)
StepNames == { <<97>>, <<97, 0>>, Repeat(97, FILENAME_LEN), Repeat(97, FILENAME_LEN + 1) }

StepPayloads == { Pattern(n) : n \in {0, 1, MaxFileSize, MaxFileSize + 1} }

\* spin::Mutex::lock returns only when the lock is free.
LockFree_Always == TRUE

LockFree == ~fs_lock

\* The panic handler never returns: once a caller has panicked nothing runs.
Halted == \E c \in Callers : run[c].pc = "panic"

Started(op, name, bytes, cap) ==
    [pc |-> "locked", op |-> op, name |-> name, data |-> bytes, cap |-> cap,
     pre |-> <<entries, block_map, data>>,
     idx |-> 0, blocks |-> NoBlocks, n |-> 0, i |-> 0,
     res |-> "Ok", ret |-> << >>]

Finished(r, res, ret) ==
    [r EXCEPT !.pc = IF res = "Panic" THEN "panic" ELSE "ret",
              !.res = res, !.ret = ret]

At(c, pc, op) == ~Halted /\ run[c].pc = pc /\ run[c].op = op

Lock(c, op, name, bytes, cap) ==
    /\ ~Halted
    /\ run[c].pc = "idle"
    /\ LockFree
    /\ fs_lock' = TRUE
    /\ run' = [run EXCEPT ![c] = Started(op, name, bytes, cap)]
    /\ UNCHANGED <<entries, block_map, data, last>>

Unlock(c) ==
    /\ ~Halted
    /\ run[c].pc = "ret"
    /\ fs_lock' = FALSE
    /\ run' = [run EXCEPT ![c] = NoRun]
    /\ UNCHANGED <<entries, block_map, data, last>>

\* create stores the new entry with one assignment (fs.rs:158).
CreateStep(c) ==
    /\ At(c, "locked", "create")
    /\ LET r == create(entries, block_map, data, run[c].name)
       IN  /\ entries' = r.entries
           /\ run' = [run EXCEPT ![c] = Finished(@, r.res, << >>)]
    /\ UNCHANGED <<block_map, data, last, fs_lock>>

ReadStep(c) ==
    /\ At(c, "locked", "read")
    /\ LET r == read_into(entries, data, run[c].name, run[c].cap)
       IN  run' = [run EXCEPT ![c] = Finished(@, r.res, <<r.n, r.buf>>)]
    /\ UNCHANGED <<entries, block_map, data, last, fs_lock>>

ListStep(c) ==
    /\ At(c, "locked", "list")
    /\ run' = [run EXCEPT ![c] = Finished(@, "Ok", list_files(entries))]
    /\ UNCHANGED <<entries, block_map, data, last, fs_lock>>

\* After the loop of free_blocks: delete returns Ok, write goes on to the
\* computation of blocks_needed.
AfterFree(r) ==
    IF r.op = "delete" THEN Finished(r, "Ok", << >>) ELSE [r EXCEPT !.pc = "need"]

\* The locals blocks and blocks_used are copied and free_blocks is entered.
EnterFree(r, idx, e) ==
    LET r2 == [r EXCEPT !.idx = idx, !.blocks = e.blocks, !.n = e.blocks_used, !.i = 0]
    IN  IF e.blocks_used = 0 THEN AfterFree(r2) ELSE [r2 EXCEPT !.pc = "free"]

\* fs.rs:163-171: the entry is found, its block list copied, the entry reset.
DeleteReset(c) ==
    /\ At(c, "locked", "delete")
    /\ LET found == find_entry(entries, run[c].name)
       IN  IF found = None
           THEN /\ run' = [run EXCEPT ![c] = Finished(@, "NotFound", << >>)]
                /\ UNCHANGED entries
           ELSE /\ entries' = [entries EXCEPT ![found[1]] = FileEntryDefault]
                /\ run' = [run EXCEPT ![c] = EnterFree(@, found[1], entries[found[1]])]
    /\ UNCHANGED <<block_map, data, last, fs_lock>>

\* fs.rs:189-191: the block list, blocks_used and size of the entry are reset.
ClearedEntry_Keep(e) == e

ClearedEntry(e) == [e EXCEPT !.blocks = NoBlocks, !.blocks_used = 0, !.size = 0]

\* fs.rs:178-205 up to the call of free_blocks.
WriteBegin(c) ==
    /\ At(c, "locked", "write")
    /\ LET name  == run[c].name
           found == find_entry(entries, name)
           slot  == find_free_entry(entries)
       IN  IF NameInvalid(name)
           THEN /\ run' = [run EXCEPT ![c] = Finished(@, "NameTooLong", << >>)]
                /\ UNCHANGED entries
           ELSE IF found # None
           THEN /\ entries' = [entries EXCEPT ![found[1]] = ClearedEntry(@)]
                /\ run' = [run EXCEPT ![c] = EnterFree(@, found[1], entries[found[1]])]
           ELSE IF slot = None
           THEN /\ run' = [run EXCEPT ![c] = Finished(@, "NoSpace", << >>)]
                /\ UNCHANGED entries
           ELSE /\ entries' = [entries EXCEPT ![slot[1]] = NamedEntry(name)]
                /\ run' = [run EXCEPT ![c] = [@ EXCEPT !.pc = "need"]]
    /\ UNCHANGED <<block_map, data, last, fs_lock>>

\* One turn of the loop of free_blocks (fs.rs:131-138).
FreeStep(c) ==
    /\ ~Halted
    /\ run[c].pc = "free"
    /\ LET r == run[c]
           b == r.blocks[r.i]
           r2 == [r EXCEPT !.i = r.i + 1]
       IN  /\ IF b # NOBLOCK
              THEN /\ block_map' = [block_map EXCEPT ![b] = FALSE]
                   /\ data' = [data EXCEPT ![b] = ZeroBlock]
              ELSE UNCHANGED <<block_map, data>>
           /\ run' = [run EXCEPT ![c] = IF r.i + 1 >= r.n THEN AfterFree(r2) ELSE r2]
    /\ UNCHANGED <<entries, last, fs_lock>>

\* fs.rs:207-216: blocks_needed, the call of allocate_blocks, the entry found
\* again.
Reserve(c) ==
    /\ ~Halted
    /\ run[c].pc = "need"
    /\ LET r == run[c]
           blocks_needed == BlocksNeeded(r.data)
           a == allocate_blocks(block_map, blocks_needed)
           idx == find_entry(entries, r.name)
       IN  IF blocks_needed > MAX_BLOCKS_PER_FILE
           THEN /\ run' = [run EXCEPT ![c] = Finished(r, "TooManyBlocks", << >>)]
                /\ UNCHANGED block_map
           ELSE /\ block_map' = a.map
                /\ run' = [run EXCEPT ![c] =
                       IF a.res # "Ok" THEN Finished(r, a.res, << >>)
                       ELSE IF idx = None THEN Finished(r, "Panic", << >>)
                       ELSE [r EXCEPT !.pc = "fill", !.idx = idx[1], !.blocks = a.out,
                                      !.n = blocks_needed, !.i = 0]]
    /\ UNCHANGED <<entries, data, last, fs_lock>>

\* One turn of the loop of fs.rs:218-235, or after it fs.rs:236.
FillStep(c) ==
    /\ ~Halted
    /\ run[c].pc = "fill"
    /\ LET r == run[c]
           block_idx == r.blocks[r.i]
       IN  IF r.i >= r.n
           THEN /\ entries' = [entries EXCEPT ![r.idx].blocks_used = r.n]
                /\ run' = [run EXCEPT ![c] = [r EXCEPT !.pc = "size"]]
                /\ UNCHANGED data
           ELSE IF block_idx >= BLOCKS
           THEN /\ run' = [run EXCEPT ![c] = Finished(r, "Panic", << >>)]
                /\ UNCHANGED <<entries, data>>
           ELSE /\ data' = [data EXCEPT ![block_idx] = FilledBlock(SliceOf(r.data, r.i))]
                /\ entries' = [entries EXCEPT ![r.idx].blocks[r.i] = block_idx]
                /\ run' = [run EXCEPT ![c] = [r EXCEPT !.i = r.i + 1]]
    /\ UNCHANGED <<block_map, last, fs_lock>>

\* fs.rs:237-239.
SizeStep(c) ==
    /\ ~Halted
    /\ run[c].pc = "size"
    /\ entries' = [entries EXCEPT ![run[c].idx].size = Len(run[c].data)]
    /\ run' = [run EXCEPT ![c] = Finished(@, "Ok", << >>)]
    /\ UNCHANGED <<block_map, data, last, fs_lock>>

StepNext ==
    \/ \E c \in Callers, name \in StepNames : Lock(c, "create", name, << >>, 0)
    \/ \E c \in Callers, name \in StepNames : Lock(c, "delete", name, << >>, 0)
    \/ \E c \in Callers, name \in StepNames, bytes \in StepPayloads :
           Lock(c, "write", name, bytes, 0)
    \/ \E c \in Callers, name \in StepNames : Lock(c, "read", name, << >>, MaxFileSize)
    \/ \E c \in Callers : Lock(c, "list", << >>, << >>, 0)
    \/ \E c \in Callers : CreateStep(c)
    \/ \E c \in Callers : DeleteReset(c)
    \/ \E c \in Callers : WriteBegin(c)
    \/ \E c \in Callers : FreeStep(c)
    \/ \E c \in Callers : Reserve(c)
    \/ \E c \in Callers : FillStep(c)
    \/ \E c \in Callers : SizeStep(c)
    \/ \E c \in Callers : ReadStep(c)
    \/ \E c \in Callers : ListStep(c)
    \/ \E c \in Callers : Unlock(c)

StepSpec == Init /\ [][StepNext]_vars

(***************************************************************************)
(* Vocabulary of the properties.                                           *)
(***************************************************************************)
Slots == 0..(MAX_FILES - 1)

BlockIds == 0..(BLOCKS - 1)

Store == <<entries, block_map, data>>

\* The positions (slot, place in the block list) that hold a block of a file.
Owned(es) ==
    { <<i, j>> \in Slots \X (0..(MAX_BLOCKS_PER_FILE - 1)) :
        es[i].used /\ j < es[i].blocks_used }

Referenced(es) == { es[p[1]].blocks[p[2]] : p \in Owned(es) }

InUse(bm) == { b \in BlockIds : bm[b] }

FreeCount(bm) == Cardinality(BlockIds \ InUse(bm))

Failed(c) == c.op # "none" /\ c.res \notin {"Ok", "Panic"}

WriteOk(c) == c.op = "write" /\ c.res = "Ok"

----------------------------------------------------------------------------
\* C1: in every state reached by calls that returned, a block is marked
\* in-use in block_map if and only if it is in blocks[0..blocks_used) of a
\* used entry.
C1_InUseIffReferenced ==
    last.res # "Panic" => InUse(block_map) = Referenced(entries)

\* C2: no block is in the block lists of two used entries, nor twice in the
\* block list of one entry.
C2_NoBlockShared ==
    \A p, q \in Owned(entries) :
        p # q => entries[p[1]].blocks[p[2]] # entries[q[1]].blocks[q[2]]

C2_Witness ==
    /\ last.op = "write" /\ last.res = "Ok"
    /\ \A i \in Slots : entries[i].used /\ entries[i].blocks_used > 0
    /\ \E i \in Slots : entries[i].blocks_used > 1

\* C3: after a write(name, bytes) that succeeded, read_into(name, buf) with
\* a buffer of at least Len(bytes) bytes returns Len(bytes) and the bytes
\* written, and every other name reads back as it did before the write.
C3_WriteReadRoundTrip ==
    [][ WriteOk(last') =>
          /\ \A cap \in BufLens \cup {Len(last'.data)} :
                cap >= Len(last'.data) =>
                    LET r == read_into(entries', data', last'.name, cap)
                    IN  r.res = "Ok" /\ r.n = Len(last'.data) /\ r.buf = last'.data
          /\ \A other \in Names \ {last'.name}, cap \in BufLens :
                read_into(entries', data', other, cap)
                    = read_into(entries, data, other, cap) ]_vars

C3_Witness ==
    /\ WriteOk(last)
    /\ Len(last.data) > BLOCK_SIZE
    /\ \E i \in Slots :
          /\ entries[i].used
          /\ TrimEndNul(entries[i].name) # last.name
          /\ entries[i].size > 0

\* C4: every call returns Ok or an FsError to its caller; none aborts.
C4_NoCallAborts == last.res # "Panic"

\* C5: a write that fails with the file-too-large error leaves the file
\* table, block_map and the block data as they were before the call.
C5_TooLargeWriteChangesNothing ==
    [][ (last'.op = "write" /\ last'.res = "TooManyBlocks")
            => UNCHANGED Store ]_vars

\* C6, as claimed, for the errors other than the file-too-large one of C5:
\* an operation that returns an error leaves the file table and the block
\* pool exactly as they were before the call.
C6_FailedCallChangesNothing ==
    [][ (Failed(last') /\ last'.res # "TooManyBlocks") => UNCHANGED Store ]_vars

\* The store after a write of name that got past the name check and the
\* slot search and failed at its blocks: the entry of name is there and
\* empty, its former blocks are free and zeroed, all else is as before.
EmptiedFor(name) ==
    LET old == { i \in Slots : entries[i].used /\ TrimEndNul(entries[i].name) = name }
        free == { i \in Slots : ~entries[i].used }
    IN  IF old # {}
        THEN LET i == SetMin(old)
                 gone == { entries[i].blocks[j] : j \in 0..(entries[i].blocks_used - 1) }
             IN  /\ entries' = [entries EXCEPT ![i].size = 0,
                                               ![i].blocks_used = 0,
                                               ![i].blocks = NoBlocks]
                 /\ block_map' = [b \in BlockIds |-> block_map[b] /\ b \notin gone]
                 /\ data' = [b \in BlockIds |-> IF b \in gone THEN ZeroBlock ELSE data[b]]
        ELSE /\ free # {}
             /\ entries' = [entries EXCEPT ![SetMin(free)] =
                               [used |-> TRUE, name |-> StoreName(name), size |-> 0,
                                blocks |-> NoBlocks, blocks_used |-> 0]]
             /\ block_map' = block_map
             /\ data' = data

\* C6, amended: a create, delete, read or list that returns an error, and a
\* write that fails on its name or for want of a free slot, leave the file
\* table and the block pool as they were; a write that fails later (file
\* too large, no free blocks) leaves the entry of its name present and
\* empty, that entry's former blocks free and zeroed, and nothing else
\* changed.
C6_FailedCallEffect ==
    [][ Failed(last') =>
          IF /\ last'.op = "write"
             /\ ~NameInvalid(last'.name)
             /\ \/ find_entry(entries, last'.name) # None
                \/ \E i \in Slots : ~entries[i].used
          THEN EmptiedFor(last'.name)
          ELSE UNCHANGED Store ]_vars

\* A write to a file that owns blocks failed for want of blocks, after the
\* scan had taken a block.
C6_Witness ==
    /\ last.op = "write" /\ last.res = "NoSpace"
    /\ find_entry(entries, last.name) # None
    /\ FreeCount(block_map) > 0
    /\ FreeCount(block_map) < BlocksNeeded(last.data)

\* C7: a write that succeeds on a name that was absent raises the number of
\* in-use blocks by exactly k = ceil(len / BLOCK_SIZE), k = 0 included, and
\* the entry's blocks_used is k.
C7_NewFileTakesExactlyK ==
    [][ (WriteOk(last') /\ find_entry(entries, last'.name) = None) =>
          LET k == BlocksNeeded(last'.data)
              i == find_entry(entries', last'.name)
          IN  /\ Cardinality(InUse(block_map')) = Cardinality(InUse(block_map)) + k
              /\ i # None
              /\ entries'[i[1]].blocks_used = k ]_vars

\* C8: a write that succeeds on a new name, followed by delete of that
\* name, returns the set of in-use blocks to what it was before the write.
C8_WriteDeleteRestoresPool ==
    [][ (WriteOk(last') /\ find_entry(entries, last'.name) = None) =>
          LET d == delete(entries', block_map', data', last'.name)
          IN  d.res = "Ok" /\ d.block_map = block_map ]_vars

\* C9: allocate_blocks(n) with fewer than n free blocks fails and leaves
\* block_map as it was.
C9_FailedAllocationRestoresMap ==
    \A n \in 0..(MAX_BLOCKS_PER_FILE + 1) :
        FreeCount(block_map) < n =>
            LET a == allocate_blocks(block_map, n)
            IN  a.res \in {"NoSpace", "TooManyBlocks"} /\ a.map = block_map

\* write called allocate_blocks with more blocks than were free, and at
\* least one was free for the scan to take.
C9_Witness ==
    /\ last.op = "write" /\ last.res = "NoSpace"
    /\ find_entry(entries, last.name) # None
    /\ BlocksNeeded(last.data) <= MAX_BLOCKS_PER_FILE
    /\ FreeCount(block_map) >= 1
    /\ entries[find_entry(entries, last.name)[1]].blocks_used = 0

\* C10: in every state reached by calls that returned, no two used entries
\* have the same name.
C10_NamesUnique ==
    last.res # "Panic" =>
        \A i, j \in Slots :
            (i # j /\ entries[i].used /\ entries[j].used)
                => TrimEndNul(entries[i].name) # TrimEndNul(entries[j].name)

\* C11: every used entry has size <= blocks_used * BLOCK_SIZE, and
\* size > (blocks_used - 1) * BLOCK_SIZE when blocks_used > 0; every unused
\* entry has blocks_used = 0, size = 0 and no block in its list.
C11_SizeMatchesBlocks ==
    \A i \in Slots :
        LET e == entries[i]
        IN  IF e.used
            THEN /\ e.size <= e.blocks_used * BLOCK_SIZE
                 /\ e.blocks_used > 0 => e.size > (e.blocks_used - 1) * BLOCK_SIZE
            ELSE /\ e.blocks_used = 0
                 /\ e.size = 0
                 /\ \A j \in 0..(MAX_BLOCKS_PER_FILE - 1) : e.blocks[j] = NOBLOCK

\* A delete just emptied a slot while a file with a partly filled last
\* block is stored.
C11_Witness ==
    /\ last.op = "delete" /\ last.res = "Ok"
    /\ \E i \in Slots : ~entries[i].used
    /\ \E i \in Slots :
          /\ entries[i].used
          /\ entries[i].blocks_used > 1
          /\ entries[i].size < entries[i].blocks_used * BLOCK_SIZE

\* The entries that hold name as it is stored (FILENAME_LEN bytes, padded
\* with zero bytes).
StoredAs(es, name) == { i \in Slots : es[i].used /\ es[i].name = StoreName(name) }

\* C12: create(name) fails with the invalid-name error for an empty or too
\* long name, otherwise with AlreadyExists if a used entry has that name,
\* otherwise with the capacity error if no slot is free; otherwise the
\* lowest unused slot becomes used with that name, size 0 and no blocks,
\* and nothing else changes.
C12_CreateOutcome ==
    [][ last'.op = "create" =>
          LET name == last'.name
              free == { i \in Slots : ~entries[i].used }
          IN  IF NameInvalid(name)
              THEN last'.res = "NameTooLong" /\ UNCHANGED Store
              ELSE IF StoredAs(entries, name) # {}
              THEN last'.res = "AlreadyExists" /\ UNCHANGED Store
              ELSE IF free = {}
              THEN last'.res = "NoSpace" /\ UNCHANGED Store
              ELSE /\ last'.res = "Ok"
                   /\ entries' = [entries EXCEPT ![SetMin(free)] =
                                     [used |-> TRUE, name |-> StoreName(name),
                                      size |-> 0, blocks |-> NoBlocks,
                                      blocks_used |-> 0]]
                   /\ UNCHANGED <<block_map, data>> ]_vars

\* C13: after a delete(name) that succeeded, read_into(name, _) and a second
\* delete(name) fail with NotFound; a delete that fails returns NotFound
\* and changes nothing.
C13_DeletedIsGone ==
    [][ last'.op = "delete" =>
          IF last'.res = "Ok"
          THEN /\ \A cap \in BufLens :
                     read_into(entries', data', last'.name, cap).res = "NotFound"
               /\ delete(entries', block_map', data', last'.name).res = "NotFound"
          ELSE last'.res = "NotFound" /\ UNCHANGED Store ]_vars

\* C14: after a create(name) that succeeded, read_into(name, buf) succeeds
\* and returns 0 bytes for every buffer size.
C14_CreatedReadsEmpty ==
    [][ (last'.op = "create" /\ last'.res = "Ok") =>
          \A cap \in BufLens :
              LET r == read_into(entries', data', last'.name, cap)
              IN  r.res = "Ok" /\ r.n = 0 ]_vars

\* C15: a write that succeeds on a file that owns j blocks, with a payload
\* that needs k blocks, leaves the file with exactly k blocks and changes
\* the number of in-use blocks by k - j.
C15_OverwriteChangesPoolByKMinusJ ==
    [][ (WriteOk(last') /\ find_entry(entries, last'.name) # None) =>
          LET i == find_entry(entries, last'.name)[1]
              j == entries[i].blocks_used
              k == BlocksNeeded(last'.data)
          IN  /\ entries'[i].blocks_used = k
              /\ Cardinality(InUse(block_map'))
                    = Cardinality(InUse(block_map)) + k - j ]_vars

\* The place in the listing of used slot i: the number of used slots up to i.
RankOfSlot(es, i) == Cardinality({ j \in 0..i : es[j].used })

\* The store after create "a", create "b", delete "a", create "c" on a new
\* store.
ExampleList ==
    LET s1 == create(NewEntries, NewBlockMap, NewData, <<97>>)
        s2 == create(s1.entries, s1.block_map, s1.data, <<98>>)
        s3 == delete(s2.entries, s2.block_map, s2.data, <<97>>)
        s4 == create(s3.entries, s3.block_map, s3.data, <<99>>)
    IN  list_files(s4.entries)

\* C16: list_files returns one (name, size) pair per used entry, in
\* ascending slot order; a new file takes the lowest unused slot; creating
\* "a", "b", deleting "a" and creating "c" lists (c, 0), (b, 0).
C16_ListInSlotOrder ==
    [][ /\ last'.op = "list" =>
            /\ Len(last'.ret) = Cardinality({ i \in Slots : entries[i].used })
            /\ \A i \in Slots :
                  entries[i].used =>
                      last'.ret[RankOfSlot(entries, i)]
                          = <<TrimEndNul(entries[i].name), entries[i].size>>
        /\ (last'.op \in {"create", "write"} /\ last'.res = "Ok"
                /\ find_entry(entries, last'.name) = None) =>
              \E i \in Slots :
                  /\ ~entries[i].used
                  /\ entries'[i].used
                  /\ \A j \in Slots : j < i => entries[j].used
        /\ ExampleList = << <<(<<99>>), 0>>, <<(<<98>>), 0>> >> ]_vars

\* A listing taken while slot 0 is unused after a delete and a later slot
\* holds a file: the unused slot is passed over.
C16_Witness ==
    /\ last.op = "list"
    /\ ~entries[0].used
    /\ entries[MAX_FILES - 1].used
    /\ entries[MAX_FILES - 1].size > 0
    /\ Len(last.ret) = Cardinality({ i \in Slots : entries[i].used })
    /\ last.ret[Len(last.ret)][2] = entries[MAX_FILES - 1].size

\* C19: after a write(name, bytes) that failed because the pool could not
\* supply the blocks, an entry of name is there with size 0 and no blocks,
\* the blocks the file owned before are free, and the in-use blocks are
\* those of before less the blocks the file owned.
C19_FailedAllocationLeavesEmptyEntry ==
    [][ ( /\ last'.op = "write" /\ last'.res = "NoSpace"
          /\ \/ find_entry(entries, last'.name) # None
             \/ \E i \in Slots : ~entries[i].used ) =>
          LET name == last'.name
              old  == find_entry(entries, name)
              had  == IF old = None THEN {}
                      ELSE { entries[old[1]].blocks[j] :
                               j \in 0..(entries[old[1]].blocks_used - 1) }
          IN  /\ \E i \in StoredAs(entries', name) :
                    /\ entries'[i].size = 0
                    /\ entries'[i].blocks_used = 0
                    /\ entries'[i].blocks = NoBlocks
              /\ old # None => StoredAs(entries', name) = StoredAs(entries, name)
              /\ \A b \in had : ~block_map'[b]
              /\ InUse(block_map') = InUse(block_map) \ had ]_vars

\* An overwrite of a file that owned blocks failed for want of blocks.
C19_Witness ==
    /\ last.op = "write" /\ last.res = "NoSpace"
    /\ find_entry(entries, last.name) # None
    /\ FreeCount(block_map) >= 1
    /\ \E i \in Slots : entries[i].used /\ entries[i].blocks_used > 0

\* The n lowest free blocks of bm.
LowestFree(bm, n) ==
    { b \in BlockIds : ~bm[b] /\ Cardinality({ c \in 0..b : ~bm[c] }) <= n }

\* C20: an allocate_blocks(n) that succeeds, n in 0..MAX_BLOCKS_PER_FILE,
\* returns the n lowest free blocks in ascending order, marks exactly those
\* in block_map and changes no other bit.
C20_AllocatesLowestFree ==
    \A n \in 0..MAX_BLOCKS_PER_FILE :
        LET a == allocate_blocks(block_map, n)
        IN  a.res = "Ok" =>
              /\ { a.out[j] : j \in 0..(n - 1) } = LowestFree(block_map, n)
              /\ \A j, k \in 0..(n - 1) : j < k => a.out[j] < a.out[k]
              /\ InUse(a.map) = InUse(block_map) \cup LowestFree(block_map, n)

\* What the operation of run record r yields when it is applied as a whole
\* to the store r.pre that the caller found when it took the lock.
AtomicOutcome(r) ==
    LET es == r.pre[1]
        bm == r.pre[2]
        d  == r.pre[3]
        Mutation(x) == [res |-> x.res, store |-> <<x.entries, x.block_map, x.data>>,
                        ret |-> << >>]
    IN  CASE r.op = "create" -> Mutation(create(es, bm, d, r.name))
          [] r.op = "delete" -> Mutation(delete(es, bm, d, r.name))
          [] r.op = "write"  -> Mutation(write(es, bm, d, r.name, r.data))
          [] r.op = "read"   -> LET x == read_into(es, d, r.name, r.cap)
                                IN  [res |-> x.res, store |-> r.pre, ret |-> <<x.n, x.buf>>]
          [] r.op = "list"   -> [res |-> "Ok", store |-> r.pre, ret |-> list_files(es)]

Inside(rn) == { c \in Callers : rn[c].pc # "idle" }

\* C17: with several callers, at most one is inside an operation and it is
\* the one that holds the lock FS; the store changes only while the lock is
\* held; the store a caller finds when it takes the lock is the store that
\* the operation before it left; and when an operation ends, its result and
\* the store are those of the whole operation applied to the store found at
\* the lock.  The operations therefore take effect one after another in the
\* order in which the lock was taken, and no caller reads an entry that
\* another operation has updated in part.
C17_LockSerialises ==
    [][ /\ Cardinality(Inside(run')) <= 1
        /\ fs_lock' = (Inside(run') # {})
        /\ (~fs_lock => Store' = Store)
        /\ \A c \in Callers :
              /\ (run[c].pc = "idle" /\ run'[c].pc = "locked")
                    => run'[c].pre = Store /\ Inside(run) = {}
              /\ run'[c].pc \in {"ret", "panic"}
                    => AtomicOutcome(run'[c]) =
                          [res |-> run'[c].res, store |-> Store', ret |-> run'[c].ret]
      ]_vars

\* A write of the largest size has ended with Ok on a store that earlier
\* operations had filled, while the other callers wait outside.
C17_Witness ==
    \E c \in Callers :
        /\ fs_lock
        /\ Inside(run) = {c}
        /\ run[c].pc = "ret"
        /\ run[c].op = "write"
        /\ run[c].res = "Ok"
        /\ Len(run[c].data) = MaxFileSize
        /\ run[c].pre[1] # NewEntries
        /\ InUse(run[c].pre[2]) # {}
        /\ Store # run[c].pre

\* The blocks that the block list of a used entry names, at any place of the
\* list.
Listed(es) ==
    { es[i].blocks[j] : i \in { s \in Slots : es[s].used },
                        j \in 0..(MAX_BLOCKS_PER_FILE - 1) } \ {NOBLOCK}

\* C18: in every state between the steps of delete and of write, each block
\* that the block list of a used entry names is marked in use: while
\* free_blocks releases the old blocks, the entry they came from lists no
\* block any more, and while write fills the entry, every block it is about
\* to store there is already marked in use.
C18_ListedBlocksInUse ==
    /\ Listed(entries) \subseteq InUse(block_map)
    /\ \A c \in Callers :
          /\ run[c].pc = "free" => entries[run[c].idx].blocks = NoBlocks
          /\ run[c].pc = "fill" =>
                \A j \in 0..(run[c].n - 1) :
                    run[c].blocks[j] \in InUse(block_map)

\* free_blocks has released the first old block of an entry and not yet the
\* next, while another file holds a block.
C18_Witness ==
    \E c \in Callers :
        /\ run[c].pc = "free"
        /\ run[c].i >= 1
        /\ run[c].i < run[c].n
        /\ ~block_map[run[c].blocks[0]]
        /\ block_map[run[c].blocks[run[c].i]]
        /\ Listed(entries) # {}

\* The block lists that free_blocks can be handed.
BlockLists == [0..(MAX_BLOCKS_PER_FILE - 1) -> BlockIds \cup {NOBLOCK}]

AllZero(d, b) == d[b] = ZeroBlock

\* C21: in every state a block that is not marked in-use holds only zero
\* bytes; free_blocks, given any block list, leaves each released block free
\* and zeroed and every other block as it was; and given a list whose
\* blocks are all free already, it changes neither block_map nor data.
C21_FreeBlocksAreZero ==
    /\ \A b \in BlockIds : ~block_map[b] => AllZero(data, b)
    /\ \A blocks \in BlockLists, blocks_used \in 0..MAX_BLOCKS_PER_FILE :
          LET bm == free_blocks_map(block_map, blocks, blocks_used)
              d  == free_blocks_data(data, blocks, blocks_used)
              rel == Released(blocks, blocks_used)
          IN  /\ \A b \in rel : ~bm[b] /\ AllZero(d, b)
              /\ \A b \in BlockIds \ rel : bm[b] = block_map[b] /\ d[b] = data[b]
              /\ (rel \cap InUse(block_map) = {}) => bm = block_map /\ d = data

\* delete has released block 0, which had been written before block 1 was
\* taken, while block 1 still holds bytes of a file.
C21_Witness ==
    /\ last.op = "delete" /\ last.res = "Ok"
    /\ ~block_map[0]
    /\ block_map[1]
    /\ 1 \in Referenced(entries)
    /\ ~AllZero(data, 1)

\* Byte number k (from 0) of the content of entry e: the blocks of the block
\* list, one after the other in the order of the list.
ContentByte(e, d, k) == d[e.blocks[k \div BLOCK_SIZE]][k % BLOCK_SIZE]

ReadCaps == BufLens \cup (0..(MaxFileSize + 1))

\* C22: in every store that a call has left, for every name that find_entry
\* finds and every buffer length, read_into returns Ok with exactly
\* min(len(buf), size) and buf[0..that) holds the first bytes of the file in
\* block-list order, so no byte at or beyond size is read; and a read step
\* leaves entries, block_map and data as they were and returns just that.
C22_ReadReturnsPrefix ==
    [][ /\ \A name \in Names, cap \in ReadCaps :
              LET found == find_entry(entries', name)
                  r     == read_into(entries', data', name, cap)
              IN  (Store' # Store /\ found # None) =>
                     LET e == entries'[found[1]]
                         n == Min(cap, e.size)
                     IN  /\ r.res = "Ok"
                         /\ r.n = n
                         /\ r.n <= e.size
                         /\ Len(r.buf) = n
                         /\ \A k \in 0..(n - 1) : r.buf[k + 1] = ContentByte(e, data', k)
        /\ last'.op = "read" =>
              /\ Store' = Store
              /\ last'.ret = LET r == read_into(entries, data, last'.name, last'.cap)
                             IN  <<r.n, r.buf>>
      ]_vars

\* A read with a buffer shorter than the file, ending inside the second
\* block of the file.
C22_Witness ==
    /\ last.op = "read" /\ last.res = "Ok"
    /\ last.cap > BLOCK_SIZE
    /\ last.ret[1] = last.cap
    /\ \E i \in Slots :
          /\ find_entry(entries, last.name) = Some(i)
          /\ entries[i].size > last.cap
          /\ last.cap % BLOCK_SIZE # 0

\* C23: for every name that create and write accept, find_entry finds the
\* entry once it is stored: after a create that succeeded find_entry returns
\* a slot that holds the stored name and read_into does not return NotFound;
\* in a write that got past the entry step (fs.rs:183-205) the lookup of
\* fs.rs:215 finds the entry, so the write does not panic there.
C23_AcceptedNameIsFound ==
    [][ /\ (last'.op = "create" /\ last'.res = "Ok") =>
              /\ find_entry(entries', last'.name) # None
              /\ find_entry(entries', last'.name)[1] \in StoredAs(entries', last'.name)
              /\ read_into(entries', data', last'.name, 0).res # "NotFound"
        /\ (last'.op = "write" /\ ~NameInvalid(last'.name)) =>
              LET p == WritePrepare(entries, block_map, data, last'.name)
              IN  p.res = "Ok" =>
                     /\ find_entry(p.entries, last'.name) # None
                     /\ find_entry(p.entries, last'.name)[1]
                            \in StoredAs(p.entries, last'.name)
      ]_vars

====
